---- MODULE Spec2Model ----
(***************************************************************************)
(* A model of src/src/regex_impl.cc: the regex parser (Parser), the        *)
(* bytecode compiler (RegexCompiler::compile) and the threaded virtual     *)
(* machine (ThreadedRegexVM).  Codepoints are integers, the pattern and    *)
(* the subject are sequences of codepoints, the bytecode is a sequence of  *)
(* bytes, instruction pointers are byte offsets into the bytecode (NULL    *)
(* for nullptr) and save slots are byte offsets into the subject.          *)
(***************************************************************************)
EXTENDS Integers, Sequences, FiniteSets, TLC

\* ------------------------------------------------------------------------
\* Codepoints
\* ------------------------------------------------------------------------

\* The codepoint of a character written as a one-character string (the
\* backtick and the single quote are written by name).
Cp(c) ==
    CASE c = "a" -> 97 [] c = "b" -> 98 [] c = "c" -> 99 [] c = "d" -> 100
      [] c = "e" -> 101 [] c = "f" -> 102 [] c = "g" -> 103 [] c = "h" -> 104
      [] c = "i" -> 105 [] c = "j" -> 106 [] c = "k" -> 107 [] c = "l" -> 108
      [] c = "m" -> 109 [] c = "n" -> 110 [] c = "o" -> 111 [] c = "p" -> 112
      [] c = "q" -> 113 [] c = "r" -> 114 [] c = "s" -> 115 [] c = "t" -> 116
      [] c = "u" -> 117 [] c = "v" -> 118 [] c = "w" -> 119 [] c = "x" -> 120
      [] c = "y" -> 121 [] c = "z" -> 122 [] c = "B" -> 66 [] c = "X" -> 88
      [] c = "Y" -> 89 [] c = "Z" -> 90 [] c = "_" -> 95 [] c = " " -> 32
      [] c = "!" -> 33 [] c = "\n" -> 10 [] c = "0" -> 48 [] c = "1" -> 49
      [] c = "2" -> 50 [] c = "3" -> 51 [] c = "4" -> 52 [] c = "5" -> 53
      [] c = "6" -> 54 [] c = "7" -> 55 [] c = "8" -> 56 [] c = "9" -> 57
      [] c = "^" -> 94 [] c = "$" -> 36 [] c = "." -> 46 [] c = "*" -> 42
      [] c = "+" -> 43 [] c = "?" -> 63 [] c = "(" -> 40 [] c = ")" -> 41
      [] c = "[" -> 91 [] c = "]" -> 93 [] c = "{" -> 123 [] c = "}" -> 125
      [] c = "|" -> 124 [] c = "\\" -> 92 [] c = "-" -> 45 [] c = "," -> 44
      [] c = "BACKTICK" -> 96 [] c = "QUOTE" -> 39 [] c = "à" -> 224

\* A text written as a tuple of one-character strings, as codepoints.
Str(t) == [k \in 1..Len(t) |-> Cp(t[k])]

\* contains("^$.*+?()[]{}|", cp)
SyntaxCharacters ==
    {Cp("^"), Cp("$"), Cp("."), Cp("*"), Cp("+"), Cp("?"), Cp("("), Cp(")"),
     Cp("["), Cp("]"), Cp("{"), Cp("}"), Cp("|")}

\* is_word of unicode.hh: a letter, a digit or '_'.
is_word(cp) ==
    \/ cp \in 48..57
    \/ cp \in 65..90
    \/ cp \in 97..122
    \/ cp = 95
    \/ cp = 224

\* utf8::dump: the bytes of a codepoint (one or two bytes here).
utf8_dump(cp) ==
    IF cp < 128 THEN <<cp>>
    ELSE <<192 + (cp \div 64), 128 + (cp % 64)>>

\* The number of bytes of the UTF-8 sequence that starts with byte b.
utf8_codepoint_size(b) == IF b < 128 THEN 1 ELSE 2

\* utf8::read_codepoint at 0-based offset off of bytes: the codepoint and
\* the offset after it.
utf8_read_codepoint(bytes, off) ==
    LET b == bytes[off + 1] IN
    IF b < 128 THEN [cp |-> b, next |-> off + 1]
    ELSE [cp |-> (b - 192) * 64 + (bytes[off + 2] - 128), next |-> off + 2]

\* ------------------------------------------------------------------------
\* Parser
\* ------------------------------------------------------------------------

NoValue == -1

QuantifierOf(type, min, max) == [type |-> type, min |-> min, max |-> max]

QuantifierOne == QuantifierOf("One", -1, -1)

allows_none(q) ==
    \/ q.type = "Optional"
    \/ q.type = "RepeatZeroOrMore"
    \/ (q.type = "RepeatMinMax" /\ q.min <= 0)

allows_infinite_repeat(q) ==
    \/ q.type = "RepeatZeroOrMore"
    \/ q.type = "RepeatOneOrMore"
    \/ (q.type = "RepeatMinMax" /\ q.max = -1)

make_ast_node(op, value) ==
    [op |-> op, value |-> value, quantifier |-> QuantifierOne, children |-> <<>>]

\* A null AstNodePtr.
NullNode == [op |-> "nullptr"]

\* The codepoint *pos of the pattern re at 1-based position pos; the
\* position Len(re) + 1 is end, where a string literal holds its
\* terminating zero.
Deref(re, pos) == IF pos <= Len(re) THEN re[pos] ELSE 0

AtEnd(re, pos) == pos > Len(re)

\* The result of a parsing function: the error thrown ("" when none), the
\* node returned, the position reached, and the ParsedRegex so far.
ParseResult(err, node, pos, parsed) ==
    [err |-> err, node |-> node, pos |-> pos, parsed |-> parsed]

\* The inner switch of assertion, on the character after a backslash.
escape_assertion(re, pos) ==
    LET d == re[pos + 1] IN
    CASE d = Cp("b") -> [node |-> make_ast_node("WordBoundary", NoValue), pos |-> pos + 2]
      [] d = Cp("B") -> [node |-> make_ast_node("NotWordBoundary", NoValue), pos |-> pos + 2]
      [] d = Cp("BACKTICK") -> [node |-> make_ast_node("SubjectBegin", NoValue), pos |-> pos + 2]
      [] d = Cp("QUOTE") -> [node |-> make_ast_node("SubjectEnd", NoValue), pos |-> pos + 2]
      [] OTHER -> [node |-> NullNode, pos |-> pos]

assertion(re, pos) ==
    IF AtEnd(re, pos) THEN [node |-> NullNode, pos |-> pos]
    ELSE IF re[pos] = Cp("^")
    THEN [node |-> make_ast_node("LineStart", NoValue), pos |-> pos + 1]
    ELSE IF re[pos] = Cp("$")
    THEN [node |-> make_ast_node("LineEnd", NoValue), pos |-> pos + 1]
    ELSE IF re[pos] = Cp("\\") /\ ~AtEnd(re, pos + 1)
    THEN escape_assertion(re, pos)
    ELSE [node |-> NullNode, pos |-> pos]

\* The control escapes of atom_escape: name -> value.
ControlEscape(cp) ==
    CASE cp = Cp("f") -> 12 [] cp = Cp("n") -> 10 [] cp = Cp("r") -> 13
      [] cp = Cp("t") -> 9 [] cp = Cp("v") -> 11 [] OTHER -> NoValue

\* atom_escape does not advance pos: it returns with pos still on the
\* escaped character.
atom_escape(parsed, re, pos) ==
    LET cp == Deref(re, pos) IN
    IF ControlEscape(cp) # NoValue
    THEN ParseResult("", make_ast_node("Literal", ControlEscape(cp)), pos, parsed)
    ELSE IF cp \in SyntaxCharacters \cup {Cp("\\")}
    THEN ParseResult("", make_ast_node("Literal", cp), pos, parsed)
    ELSE ParseResult("Unknown atom escape", NullNode, pos, parsed)

\* The while loop of character_class.
RECURSIVE class_ranges(_, _, _)
class_ranges(re, pos, ranges) ==
    IF AtEnd(re, pos) \/ re[pos] = Cp("]")
    THEN [err |-> "", pos |-> pos, ranges |-> ranges]
    ELSE LET cp == re[pos]
             p1 == pos + 1
         IN
         IF cp = Cp("-")
         THEN class_ranges(re, p1, Append(ranges, [min |-> Cp("-"), max |-> 0]))
         ELSE IF AtEnd(re, p1)
         THEN [err |-> "", pos |-> p1, ranges |-> ranges]
         ELSE IF re[p1] = Cp("-")
         THEN IF AtEnd(re, p1 + 1)
              THEN [err |-> "", pos |-> p1 + 1, ranges |-> ranges]
              ELSE LET max == re[p1 + 1] IN
                   IF cp > max
                   THEN [err |-> "Invalid range specified", pos |-> p1 + 2, ranges |-> ranges]
                   ELSE class_ranges(re, p1 + 2, Append(ranges, [min |-> cp, max |-> max]))
         ELSE class_ranges(re, p1, Append(ranges, [min |-> cp, max |-> 0]))

\* character_class after its while loop returned r.
character_class_end(r, negative, parsed, re) ==
    IF r.err # "" THEN ParseResult(r.err, NullNode, r.pos, parsed)
    ELSE IF AtEnd(re, r.pos)
    THEN ParseResult("Unclosed character class", NullNode, r.pos, parsed)
    ELSE ParseResult("",
                     make_ast_node(IF negative THEN "NegativeCharRange" ELSE "CharRange",
                                   Len(parsed.ranges)),
                     r.pos + 1,
                     [parsed EXCEPT !.ranges = Append(@, r.ranges)])

character_class(parsed, re, pos) ==
    character_class_end(
        class_ranges(re, IF ~AtEnd(re, pos) /\ re[pos] = Cp("^") THEN pos + 1 ELSE pos, <<>>),
        ~AtEnd(re, pos) /\ re[pos] = Cp("^"), parsed, re)

\* The lambda read_int of quantifier: the integer read and the position after.
RECURSIVE read_int_from(_, _, _, _)
read_int_from(re, pos, begin, res) ==
    IF AtEnd(re, pos) THEN [val |-> res, pos |-> pos]
    ELSE LET cp == re[pos] IN
         IF cp < Cp("0") \/ cp > 57
         THEN [val |-> IF pos = begin THEN -1 ELSE res, pos |-> pos]
         ELSE read_int_from(re, pos + 1, begin, res * 10 + cp - Cp("0"))

read_int(re, pos) == read_int_from(re, pos, pos, 0)

\* quantifier: the error, the quantifier and the position after it.
quantifier(re, pos) ==
    IF AtEnd(re, pos) THEN [err |-> "", q |-> QuantifierOne, pos |-> pos]
    ELSE LET c == re[pos] IN
         CASE c = Cp("*") -> [err |-> "", q |-> QuantifierOf("RepeatZeroOrMore", -1, -1), pos |-> pos + 1]
           [] c = Cp("+") -> [err |-> "", q |-> QuantifierOf("RepeatOneOrMore", -1, -1), pos |-> pos + 1]
           [] c = Cp("?") -> [err |-> "", q |-> QuantifierOf("Optional", -1, -1), pos |-> pos + 1]
           [] c = Cp("{") ->
                LET rmin == read_int(re, pos + 1)
                    hasmax == Deref(re, rmin.pos) = Cp(",")
                    rmax == IF hasmax THEN read_int(re, rmin.pos + 1)
                            ELSE [val |-> -1, pos |-> rmin.pos]
                IN
                IF Deref(re, rmax.pos) # Cp("}")
                THEN [err |-> "expected closing bracket", q |-> QuantifierOne, pos |-> rmax.pos + 1]
                ELSE [err |-> "", q |-> QuantifierOf("RepeatMinMax", rmin.val, rmax.val),
                      pos |-> rmax.pos + 1]
           [] OTHER -> [err |-> "", q |-> QuantifierOne, pos |-> pos]

RECURSIVE disjunction(_, _, _, _)
RECURSIVE disjunction_alternative(_, _, _)
RECURSIVE alternative(_, _, _)
RECURSIVE alternative_terms(_, _, _, _)
RECURSIVE alternative_term(_, _, _)
RECURSIVE term(_, _, _)
RECURSIVE term_assertion(_, _, _, _)
RECURSIVE atom(_, _, _)

\* disjunction after the disjunction on the right of '|' returned d.
disjunction_rest(a, d, capture) ==
    IF d.err # "" THEN d
    ELSE ParseResult("",
                     [make_ast_node("Alternation", capture)
                         EXCEPT !.children = <<a.node, d.node>>],
                     d.pos, d.parsed)

\* disjunction after alternative returned a.
disjunction_alternative(a, re, capture) ==
    IF a.err # "" THEN a
    ELSE IF AtEnd(re, a.pos) \/ re[a.pos] # Cp("|")
    THEN [a EXCEPT !.node.value = capture]
    ELSE disjunction_rest(a, disjunction(a.parsed, re, a.pos + 1, NoValue), capture)

disjunction(parsed, re, pos, capture) ==
    disjunction_alternative(alternative(parsed, re, pos), re, capture)

\* alternative after its while loop returned r.
alternative_end(r) ==
    IF r.err # "" THEN r
    ELSE IF r.node.children = <<>>
    THEN ParseResult("Parse error in alternative", NullNode, r.pos, r.parsed)
    ELSE r

\* alternative: the Sequence node res collects the terms.
alternative(parsed, re, pos) == alternative_end(alternative_terms(parsed, re, pos, <<>>))

\* The while loop of alternative after term returned t.
alternative_term(t, re, children) ==
    IF t.err # "" THEN t
    ELSE IF t.node = NullNode
    THEN ParseResult("",
                     [make_ast_node("Sequence", NoValue) EXCEPT !.children = children],
                     t.pos, t.parsed)
    ELSE alternative_terms(t.parsed, re, t.pos, Append(children, t.node))

\* The while loop of alternative.
alternative_terms(parsed, re, pos, children) ==
    alternative_term(term(parsed, re, pos), re, children)

\* term after quantifier returned q for the atom a.
term_quantifier(a, q) ==
    IF q.err # "" THEN ParseResult(q.err, NullNode, q.pos, a.parsed)
    ELSE ParseResult("", [a.node EXCEPT !.quantifier = q.q], q.pos, a.parsed)

\* term after atom returned a.
term_atom(a, re) ==
    IF a.err # "" \/ a.node = NullNode THEN a
    ELSE term_quantifier(a, quantifier(re, a.pos))

\* term after assertion returned s.
term_assertion(s, parsed, re, pos) ==
    IF s.node # NullNode THEN ParseResult("", s.node, s.pos, parsed)
    ELSE term_atom(atom(parsed, re, pos), re)

term(parsed, re, pos) == term_assertion(assertion(re, pos), parsed, re, pos)

\* atom after the disjunction in parentheses returned content.
atom_group(content, re) ==
    IF content.err # "" THEN content
    ELSE IF AtEnd(re, content.pos) \/ re[content.pos] # Cp(")")
    THEN ParseResult("Unclosed parenthesis", NullNode, content.pos, content.parsed)
    ELSE [content EXCEPT !.pos = @ + 1]

atom(parsed, re, pos) ==
    IF AtEnd(re, pos) THEN ParseResult("", NullNode, pos, parsed)
    ELSE CASE re[pos] = Cp(".") ->
                ParseResult("", make_ast_node("AnyChar", NoValue), pos + 1, parsed)
           [] re[pos] = Cp("(") ->
                atom_group(disjunction([parsed EXCEPT !.capture_count = @ + 1],
                                       re, pos + 1, parsed.capture_count),
                           re)
           [] re[pos] = Cp("\\") -> atom_escape(parsed, re, pos + 1)
           [] re[pos] = Cp("[") -> character_class(parsed, re, pos + 1)
           [] OTHER ->
                IF re[pos] \in SyntaxCharacters THEN ParseResult("", NullNode, pos, parsed)
                ELSE ParseResult("", make_ast_node("Literal", re[pos]), pos + 1, parsed)

\* Parser::parse: the root disjunction is capture group 0.  The position
\* reached is kept in the result; parse itself never looks at it.
parse(re) ==
    disjunction([capture_count |-> 1, ranges |-> <<>>], re, 1, 0)

\* ------------------------------------------------------------------------
\* Bytecode compiler
\* ------------------------------------------------------------------------

\* enum CompiledRegex::Op
Match == 0
Literal == 1
AnyChar == 2
CharRange == 3
NegativeCharRange == 4
Jump == 5
Split_PrioritizeParent == 6
Split_PrioritizeChild == 7
Save == 8
LineStart == 9
LineEnd == 10
WordBoundary == 11
NotWordBoundary == 12
SubjectBegin == 13
SubjectEnd == 14

\* sizeof(CompiledRegex::Offset)
OffsetSize == 4

\* The value e, with the value v evaluated first: the compiler's statements
\* run in order, each on the bytecode the one before left.
After(v, e) == IF v = v THEN e ELSE e

\* alloc_offset: the bytecode grown by a zeroed Offset (its position is the
\* old size).
alloc_offset(bytecode) == bytecode \o <<0, 0, 0, 0>>

\* The store of an Offset as it would be if it stored the address of the
\* byte after the one meant.
set_offset_next_byte(bytecode, pos, value) ==
    SubSeq(bytecode, 1, pos)
        \o <<(value + 1) % 256, ((value + 1) \div 256) % 256,
              ((value + 1) \div 65536) % 256, ((value + 1) \div 16777216) % 256>>
        \o SubSeq(bytecode, pos + OffsetSize + 1, Len(bytecode))

\* get_offset(program, pos) = value: the Offset stored at byte pos
\* (little-endian).
set_offset(bytecode, pos, value) ==
    SubSeq(bytecode, 1, pos)
        \o <<value % 256, (value \div 256) % 256,
              (value \div 65536) % 256, (value \div 16777216) % 256>>
        \o SubSeq(bytecode, pos + OffsetSize + 1, Len(bytecode))

\* The Offset read at byte pos.
get_offset(bytecode, pos) ==
    bytecode[pos + 1] + 256 * bytecode[pos + 2]
        + 65536 * bytecode[pos + 3] + 16777216 * bytecode[pos + 4]

push_codepoint(bytecode, cp) == bytecode \o utf8_dump(cp)

\* SaveSlots as it would be with the two slots of a group exchanged.
SaveSlotsSwapped(capture) == <<capture * 2 + 1, capture * 2>>

\* The two slots a capture group saves into: its start and its end.
SaveSlots(capture) == <<capture * 2, capture * 2 + 1>>

\* for (auto& r : ranges) if (r.max == 0) push_codepoint(program, r.min);
RECURSIVE push_singles(_, _, _)
push_singles(bytecode, ranges, k) ==
    IF k > Len(ranges) THEN bytecode
    ELSE push_singles(IF ranges[k].max = 0
                      THEN push_codepoint(bytecode, ranges[k].min)
                      ELSE bytecode,
                      ranges, k + 1)

\* for (auto& r : ranges) if (r.max != 0) { push min; push max; }
RECURSIVE push_ranges(_, _, _)
push_ranges(bytecode, ranges, k) ==
    IF k > Len(ranges) THEN bytecode
    ELSE push_ranges(IF ranges[k].max # 0
                     THEN push_codepoint(push_codepoint(bytecode, ranges[k].min),
                                         ranges[k].max)
                     ELSE bytecode,
                     ranges, k + 1)

\* for (auto offset : offsets) get_offset(program, offset) = value;
RECURSIVE patch_offsets(_, _, _)
patch_offsets(bytecode, offsets, value) ==
    IF offsets = <<>> THEN bytecode
    ELSE patch_offsets(set_offset(bytecode, Head(offsets), value), Tail(offsets), value)

RECURSIVE compile_node_inner(_, _, _)
RECURSIVE compile_node(_, _, _)
RECURSIVE compile_children(_, _, _, _)
RECURSIVE compile_min_copies(_, _, _, _, _)
RECURSIVE compile_optional_copies(_, _, _, _, _)
RECURSIVE compile_alternation(_, _, _)
RECURSIVE compile_op(_, _, _)

\* Op::Alternation after the second child was compiled: the split at
\* offset goes to the second child, the jump at end_offset is still to patch.
compile_alternation_end(offset, end_offset, right) ==
    After(right, [bytecode |-> set_offset(right.bytecode, offset, right.pos),
                  ends |-> <<end_offset>>])

\* Op::Alternation after the first child and the Jump: b3 is the bytecode.
compile_alternation_jump(offset, b3, parsed, node) ==
    After(b3, compile_alternation_end(offset, Len(b3),
                                      compile_node(alloc_offset(b3), parsed,
                                                   node.children[2])))

\* Op::Alternation after the Split_PrioritizeParent: b1 is the bytecode.
compile_alternation(b1, parsed, node) ==
    After(b1, compile_alternation_jump(
                  Len(b1),
                  Append(compile_node(alloc_offset(b1), parsed, node.children[1]).bytecode,
                         Jump),
                  parsed, node))

\* The CharRange case after the opcode and the two counts.
compile_ranges(b2, ranges) == push_ranges(push_singles(b2, ranges, 1), ranges, 1)

\* The body of compile_node_inner between the two Save instructions: the
\* bytecode after it, and goto_inner_end_offsets.
compile_op(bytecode, parsed, node) ==
    CASE node.op = "Literal" ->
            [bytecode |-> push_codepoint(Append(bytecode, Literal), node.value),
             ends |-> <<>>]
      [] node.op = "AnyChar" ->
            [bytecode |-> Append(bytecode, AnyChar), ends |-> <<>>]
      [] node.op \in {"CharRange", "NegativeCharRange"} ->
            [bytecode |->
                compile_ranges(
                    Append(Append(Append(bytecode,
                                         IF node.op = "CharRange" THEN CharRange
                                         ELSE NegativeCharRange),
                                  Len(SelectSeq(parsed.ranges[node.value + 1],
                                                LAMBDA r : r.max = 0))),
                           Len(SelectSeq(parsed.ranges[node.value + 1],
                                         LAMBDA r : r.max # 0))),
                    parsed.ranges[node.value + 1]),
             ends |-> <<>>]
      [] node.op = "Sequence" ->
            [bytecode |-> compile_children(bytecode, parsed, node.children, 1),
             ends |-> <<>>]
      [] node.op = "Alternation" ->
            compile_alternation(Append(bytecode, Split_PrioritizeParent), parsed, node)
      [] node.op = "LineStart" -> [bytecode |-> Append(bytecode, LineStart), ends |-> <<>>]
      [] node.op = "LineEnd" -> [bytecode |-> Append(bytecode, LineEnd), ends |-> <<>>]
      [] node.op = "WordBoundary" -> [bytecode |-> Append(bytecode, WordBoundary), ends |-> <<>>]
      [] node.op = "NotWordBoundary" ->
            [bytecode |-> Append(bytecode, NotWordBoundary), ends |-> <<>>]
      [] node.op = "SubjectBegin" -> [bytecode |-> Append(bytecode, SubjectBegin), ends |-> <<>>]
      [] node.op = "SubjectEnd" -> [bytecode |-> Append(bytecode, SubjectEnd), ends |-> <<>>]

\* The loop of Op::Sequence after a child was compiled: b is the bytecode.
compile_children_next(b, parsed, children, k) ==
    After(b, compile_children(b, parsed, children, k + 1))

\* for (auto& child : node->children) compile_node(program, parsed_regex, child);
compile_children(bytecode, parsed, children, k) ==
    IF k > Len(children) THEN bytecode
    ELSE compile_children_next(compile_node(bytecode, parsed, children[k]).bytecode,
                               parsed, children, k)

\* compile_node_inner after the offsets of the body were patched: the closing
\* Save of a group.
compile_node_save(b2, start_pos, capture) ==
    [bytecode |-> IF capture # NoValue
                  THEN Append(Append(b2, Save), SaveSlots(capture)[2])
                  ELSE b2,
     pos |-> start_pos]

\* compile_node_inner after the switch: the jumps to the end of the body
\* are patched.
compile_node_patch(body, start_pos, capture) ==
    After(body, compile_node_save(
                    patch_offsets(body.bytecode, body.ends, Len(body.bytecode)),
                    start_pos, capture))

\* compile_node_inner from the opening Save of a group on.
compile_node_capture(bytecode, start_pos, capture, parsed, node) ==
    compile_node_patch(
        compile_op(IF capture # NoValue
                   THEN Append(Append(bytecode, Save), SaveSlots(capture)[1])
                   ELSE bytecode,
                   parsed, node),
        start_pos, capture)

\* compile_node_inner as it would be if a Sequence of a single child were
\* compiled as that child alone: the group (a) would emit no Save pair.
compile_node_inner_bare_atom(bytecode, parsed, node) ==
    compile_node_capture(bytecode, Len(bytecode),
                         IF \/ node.op = "Alternation"
                            \/ (node.op = "Sequence" /\ Len(node.children) > 1)
                         THEN node.value
                         ELSE NoValue,
                         parsed, node)

\* compile_node_inner: the bytecode with the node appended (without its
\* quantifier) and the position start_pos where it starts.
compile_node_inner(bytecode, parsed, node) ==
    compile_node_capture(bytecode, Len(bytecode),
                         IF node.op \in {"Alternation", "Sequence"} THEN node.value
                         ELSE NoValue,
                         parsed, node)

\* The loop of mandatory copies after a copy r was compiled.
compile_min_copy(r, parsed, node, i) ==
    After(r, compile_min_copies(r.bytecode, parsed, node, i + 1, r.pos))

\* for (int i = 1; i < node.quantifier.min; ++i)
\*     inner_pos = compile_node_inner(...)
compile_min_copies(bytecode, parsed, node, i, inner_pos) ==
    IF i < node.quantifier.min
    THEN compile_min_copy(compile_node_inner(bytecode, parsed, node), parsed, node, i)
    ELSE [bytecode |-> bytecode, pos |-> inner_pos]

\* The loop of optional copies after a copy r was compiled.
compile_optional_copy(r, parsed, node, i, offsets) ==
    After(r, compile_optional_copies(r.bytecode, parsed, node, i + 1, offsets))

\* for (int i = std::max(1, min); i < max; ++i): a split to the end and one
\* more copy of the node; the bytecode and the offsets still to be patched.
compile_optional_copies(bytecode, parsed, node, i, offsets) ==
    IF i < node.quantifier.max
    THEN compile_optional_copy(
             compile_node_inner(alloc_offset(Append(bytecode, Split_PrioritizeParent)),
                                parsed, node),
             parsed, node, i, Append(offsets, Len(bytecode) + 1))
    ELSE [bytecode |-> bytecode, offsets |-> offsets]

\* Mandatory repetitions are unrolled from max(1, min).
OptionalStart(q) == IF q.min > 1 THEN q.min ELSE 1

\* compile_node at its end: goto_end_offsets are patched.
compile_node_end(rest, pos) ==
    After(rest, [bytecode |-> patch_offsets(rest.bytecode, rest.offsets, Len(rest.bytecode)),
                 pos |-> pos])

\* compile_node after the mandatory copies inner: the loop back of an
\* unbounded quantifier, or the optional copies.
compile_node_repeat(inner, pos, parsed, node) ==
    After(inner,
          compile_node_end(
              IF allows_infinite_repeat(node.quantifier)
              THEN [bytecode |->
                       set_offset(alloc_offset(Append(inner.bytecode, Split_PrioritizeChild)),
                                  Len(inner.bytecode) + 1, inner.pos),
                    offsets |-> IF allows_none(node.quantifier) THEN <<pos + 1>> ELSE <<>>]
              ELSE compile_optional_copies(
                       inner.bytecode, parsed, node, OptionalStart(node.quantifier),
                       IF allows_none(node.quantifier) THEN <<pos + 1>> ELSE <<>>),
              pos))

\* compile_node after the first copy of the node.
compile_node_first(first, pos, parsed, node) ==
    After(first, compile_node_repeat(
                     compile_min_copies(first.bytecode, parsed, node, 1, first.pos),
                     pos, parsed, node))

\* compile_node: the node with its quantifier; with allows_none a split in
\* front jumps over it.
compile_node(bytecode, parsed, node) ==
    After(bytecode,
          compile_node_first(
              compile_node_inner(IF allows_none(node.quantifier)
                                 THEN alloc_offset(Append(bytecode, Split_PrioritizeParent))
                                 ELSE bytecode,
                                 parsed, node),
              Len(bytecode), parsed, node))

\* constexpr prefix_size = 3 + 2 * sizeof(CompiledRegex::Offset)
prefix_size == 3 + 2 * OffsetSize

\* write_search_prefix: a '.*' before the pattern, for the search use case.
write_search_prefix ==
    LET b1 == <<Split_PrioritizeChild>>
        b2 == set_offset(alloc_offset(b1), Len(b1), prefix_size)
        b3 == Append(Append(b2, AnyChar), Split_PrioritizeParent)
    IN set_offset(alloc_offset(b3), Len(b3), 1 + OffsetSize)

\* compile(const ParsedRegex&)
compile_parsed(parsed, ast) ==
    [bytecode |-> Append(compile_node(write_search_prefix, parsed, ast).bytecode, Match),
     save_count |-> parsed.capture_count * 2]

\* The value of program when no program was returned.
NoProgram == [bytecode |-> <<>>, save_count |-> 0]

\* compile(StringView re) after Parser::parse returned or threw.
compile_result(p) ==
    IF p.err # "" THEN [err |-> p.err, program |-> NoProgram]
    ELSE [err |-> "", program |-> compile_parsed(p.parsed, p.node)]

\* compile(StringView re): the program, or the error Parser::parse threw.
compile(re) == compile_result(parse(re))

\* ------------------------------------------------------------------------
\* Bounds and inputs
\* ------------------------------------------------------------------------

\* The longest subject text.
MaxInputLen == 3

\* The codepoints of the subject texts: two word characters and a newline.
InputAlphabet == {Cp("a"), Cp("b"), Cp("\n")}

\* The longest subject text made of one repeated codepoint.
MaxRepeatLen == 5

\* The subject texts "a...a" longer than MaxInputLen, for the patterns whose
\* thread list depends on the length of the subject.
RepeatInputs == {[k \in 1..n |-> Cp("a")] : n \in (MaxInputLen + 1)..MaxRepeatLen}

Inputs == UNION {[1..n -> InputAlphabet] : n \in 0..MaxInputLen} \cup RepeatInputs

\* The patterns compiled: every instruction of the bytecode, every
\* quantifier, groups inside repetitions, and patterns the grammar does not
\* consume to their end.
Patterns ==
    {Str(<<"a">>),
     Str(<<"a", "*">>),
     Str(<<"a", "|", "a", "b">>),
     Str(<<"(", "a", ")", "|", ".">>),
     Str(<<".", "*", "(", "a", "|", "b", ")", "b">>),
     Str(<<"(", "a", "|", "b", ")", "+">>),
     Str(<<"(", "a", "+", ")", "+">>),
     Str(<<"(", "a", "|", "a", "b", ")", "*", "b", "?">>),
     Str(<<"(", "(", "a", ")", "|", "b", ")", "{", "1", ",", "2", "}">>),
     Str(<<"a", "{", "0", ",", "0", "}">>),
     Str(<<"a", "{", "1", ",", "2", "}">>),
     Str(<<"a", "{", "2", ",", "}">>),
     Str(<<"a", "{", "2", "}">>),
     Str(<<"a", "{", ",", "2", "}">>),
     Str(<<"\\", "b", "a">>),
     Str(<<".", "\\", "B", ".">>),
     Str(<<"^", "a", "$">>),
     Str(<<"\\", "BACKTICK", "[", "a", "b", "]", "\\", "QUOTE">>),
     Str(<<"[", "^", "a", "]", "[", "a", "-", "b", "]">>),
     Str(<<"(", "^", ")", "*">>),
     Str(<<"(", "a", "|", "b", ")", "+", ")">>),
     Str(<<"^", "a", "$", "*">>),
     Str(<<"(", "a">>)}

\* ------------------------------------------------------------------------
\* ThreadedRegexVM
\* ------------------------------------------------------------------------

VARIABLES
    re,             \* the pattern given to compile
    program,        \* m_program: the CompiledRegex
    compile_error,  \* the message of the runtime_error compile threw, or ""
    pc,             \* "parse", "error", "ready", "main" (the loop over the
                    \* subject), "final" (the loop after it), "done"
    data,           \* the subject text of exec: m_begin .. m_end
    match,          \* exec's parameter match: the whole subject must match
    longest,        \* exec's parameter longest
    m_threads,      \* the thread list
    m_pos,          \* the number of codepoints before m_pos
    m_captures,     \* the saves of the last thread that matched
    found_match,    \* exec's local found_match
    i,              \* the index of the thread list loops
    result          \* what exec returned, once pc = "done"

vars ==
    <<re, program, compile_error, pc, data, match, longest, m_threads, m_pos,
      m_captures, found_match, i, result>>

\* nullptr, as an instruction pointer and as a save slot.
NULL == -1

\* m_end, as a number of codepoints.
m_end == Len(data)

\* The byte offset in the subject text of the codepoint position pos:
\* m_pos.base() - m_begin.
RECURSIVE base(_, _)
base(text, pos) ==
    IF pos = 0 THEN 0
    ELSE base(text, pos - 1) + Len(utf8_dump(text[pos]))

\* step: const Codepoint cp = m_pos == m_end ? 0 : *m_pos;
cp == IF m_pos = m_end THEN 0 ELSE data[m_pos + 1]

is_line_start == m_pos = 0 \/ data[m_pos] = Cp("\n")

is_line_end == m_pos = m_end \/ data[m_pos + 1] = Cp("\n")

is_word_boundary ==
    \/ m_pos = 0
    \/ m_pos = m_end
    \/ is_word(data[m_pos]) # is_word(data[m_pos + 1])

\* std::find_if(m_threads.begin(), m_threads.end(), t.inst == inst) != end
has_thread_at(threads, inst) == \E k \in 1..Len(threads) : threads[k].inst = inst

\* insert as it would be if the thread were put at the end of the list.
insert_thread_last(threads, index, thread) == Append(threads, thread)

\* m_threads.insert(m_threads.begin() + index, thread)
insert_thread(threads, index, thread) ==
    SubSeq(threads, 1, index) \o <<thread>> \o SubSeq(threads, index + 1, Len(threads))

\* add_thread: no thread is added at an instruction some thread of the
\* list already points to.
add_thread(threads, index, pos, saves) ==
    IF has_thread_at(threads, pos) THEN threads
    ELSE insert_thread(threads, index, [inst |-> pos, saves |-> saves])

\* std::remove_if + erase as it would be if it removed nothing: the dead
\* threads stay in the list and are stepped at the next position.
erase_none(threads) == threads

\* std::remove_if + erase of the threads whose inst is nullptr.
erase_dead(threads) == SelectSeq(threads, LAMBDA t : t.inst # NULL)

\* save_position as it would be if a slot once written were never written
\* again: a group in a repetition would keep its first copy.
save_position_first(saves, index, position) ==
    IF saves[index + 1] # NULL THEN saves
    ELSE [saves EXCEPT ![index + 1] = position]

\* thread.saves[index] = m_pos.base()
save_position(saves, index, position) == [saves EXCEPT ![index + 1] = position]

\* utf8::advance(inst, prog_end, count): inst moved over count codepoints.
RECURSIVE utf8_advance(_, _, _)
utf8_advance(bytes, inst, count) ==
    IF count <= 0 \/ inst >= Len(bytes) THEN inst
    ELSE utf8_advance(bytes, inst + utf8_codepoint_size(bytes[inst + 1]), count - 1)

\* The first loop of the CharRange case: the single codepoints.
RECURSIVE scan_singles(_, _, _, _, _, _)
scan_singles(bytes, inst, k, single_count, range_count, c) ==
    IF k >= single_count THEN [hit |-> FALSE, inst |-> inst]
    ELSE LET r == utf8_read_codepoint(bytes, inst) IN
         IF c = r.cp
         THEN [hit |-> TRUE,
               inst |-> utf8_advance(bytes, r.next, single_count - (k + 1) + range_count * 2)]
         ELSE scan_singles(bytes, r.next, k + 1, single_count, range_count, c)

\* The second loop of the CharRange case: the ranges.
RECURSIVE scan_ranges(_, _, _, _, _)
scan_ranges(bytes, inst, k, range_count, c) ==
    IF k >= range_count THEN [hit |-> FALSE, inst |-> inst]
    ELSE LET lo == utf8_read_codepoint(bytes, inst)
             hi == utf8_read_codepoint(bytes, lo.next)
         IN
         IF lo.cp <= c /\ c <= hi.cp
         THEN [hit |-> TRUE, inst |-> utf8_advance(bytes, hi.next, (range_count - (k + 1)) * 2)]
         ELSE scan_ranges(bytes, hi.next, k + 1, range_count, c)

\* The CharRange case of step, from the byte after the opcode: whether the
\* codepoint is in the class, and the instruction pointer left.
scan_class(bytes, inst, c) ==
    LET single_count == bytes[inst + 1]
        range_count == bytes[inst + 2]
        s == scan_singles(bytes, inst + 2, 0, single_count, range_count, c)
    IN IF s.hit THEN s ELSE scan_ranges(bytes, s.inst, 0, range_count, c)

\* The thread step(i) runs, and the opcode it is about to fetch.
InStep == pc \in {"main", "final"} /\ i < Len(m_threads)

thread == m_threads[i + 1]

op == program.bytecode[thread.inst + 1]

\* The thread list with the current thread's instruction pointer set.
with_inst(threads, inst) == [threads EXCEPT ![i + 1].inst = inst]

\* step goes round its while (true) loop: the same thread runs on.
Continue(threads) ==
    /\ m_threads' = threads
    /\ UNCHANGED <<re, program, compile_error, pc, data, match, longest, m_pos,
                   m_captures, found_match, i, result>>

\* step returned Consumed: exec goes to the next thread.
Consumed(threads) ==
    /\ m_threads' = threads
    /\ i' = i + 1
    /\ UNCHANGED <<re, program, compile_error, pc, data, match, longest, m_pos,
                   m_captures, found_match, result>>

\* step returned Failed: the loop over the subject marks the thread dead,
\* the loop after it leaves the thread as it is.
Failed(threads) ==
    /\ m_threads' = IF pc = "main" THEN with_inst(threads, NULL) ELSE threads
    /\ i' = i + 1
    /\ UNCHANGED <<re, program, compile_error, pc, data, match, longest, m_pos,
                   m_captures, found_match, result>>

\* step returned Matched.  Before the end of the subject a full match is
\* not one; else the saves become the captures, this and the lower priority
\* threads are removed, and exec returns unless longest.
Matched(threads) ==
    IF pc = "main" /\ match
    THEN /\ m_threads' = threads
         /\ i' = i + 1
         /\ UNCHANGED <<re, program, compile_error, pc, data, match, longest, m_pos,
                        m_captures, found_match, result>>
    ELSE /\ m_captures' = threads[i + 1].saves
         /\ found_match' = TRUE
         /\ m_threads' = SubSeq(threads, 1, i)
         /\ IF ~longest
            THEN pc' = "done" /\ result' = TRUE /\ i' = i
            ELSE i' = i + 1 /\ UNCHANGED <<pc, result>>
         /\ UNCHANGED <<re, program, compile_error, data, match, longest, m_pos>>

\* compile succeeded: the VM is constructed on the program.
CompileOk ==
    /\ pc = "parse"
    /\ compile(re).err = ""
    /\ program' = compile(re).program
    /\ pc' = "ready"
    /\ UNCHANGED <<re, compile_error, data, match, longest, m_threads, m_pos,
                   m_captures, found_match, i, result>>

\* compile threw.
CompileError ==
    /\ pc = "parse"
    /\ compile(re).err # ""
    /\ compile_error' = compile(re).err
    /\ pc' = "error"
    /\ UNCHANGED <<re, program, data, match, longest, m_threads, m_pos,
                   m_captures, found_match, i, result>>

\* The start offset as it would be if the anchored execution began at the
\* search prefix and the search began past it.
exec_start_swapped(m) == IF m THEN 0 ELSE prefix_size

\* The offset exec seeds its first thread at: match ? prefix_size : 0.
exec_start(m) == IF m THEN prefix_size ELSE 0

\* m_threads.clear() as it would be if it left the list as it is.
clear_none(threads) == threads

\* m_threads.clear()
clear(threads) == <<>>

\* A call of exec on a subject text drawn from inputs, up to the first test
\* of the loop over the subject.  m_captures is not touched; no value has
\* been returned yet.
ExecCall(inputs) ==
    /\ \E d \in inputs, m \in BOOLEAN, l \in BOOLEAN :
          /\ data' = d
          /\ match' = m
          /\ longest' = l
          /\ m_threads' = add_thread(clear(m_threads), 0, exec_start(m),
                                     [k \in 1..program.save_count |-> NULL])
          /\ pc' = IF Len(d) = 0 THEN "final" ELSE "main"
    /\ found_match' = FALSE
    /\ m_pos' = 0
    /\ i' = 0
    /\ result' = FALSE
    /\ UNCHANGED <<re, program, compile_error, m_captures>>

\* The first exec on a VM just constructed.
Exec == pc = "ready" /\ ExecCall(Inputs)

StepLiteral ==
    /\ InStep /\ op = Literal
    /\ LET r == utf8_read_codepoint(program.bytecode, thread.inst + 1) IN
       IF r.cp = cp THEN Consumed(with_inst(m_threads, r.next))
       ELSE Failed(with_inst(m_threads, r.next))

StepAnyChar ==
    /\ InStep /\ op = AnyChar
    /\ Consumed(with_inst(m_threads, thread.inst + 1))

StepCharRange ==
    /\ InStep /\ op = CharRange
    /\ LET s == scan_class(program.bytecode, thread.inst + 1, cp) IN
       IF s.hit THEN Consumed(with_inst(m_threads, s.inst))
       ELSE Failed(with_inst(m_threads, s.inst))

StepNegativeCharRange ==
    /\ InStep /\ op = NegativeCharRange
    /\ LET s == scan_class(program.bytecode, thread.inst + 1, cp) IN
       IF s.hit THEN Failed(with_inst(m_threads, s.inst))
       ELSE Consumed(with_inst(m_threads, s.inst))

\* Jump: the thread is dropped when a thread of the list already points to
\* the target.
StepJump ==
    /\ InStep /\ op = Jump
    /\ LET fetched == with_inst(m_threads, thread.inst + 1)
           inst == get_offset(program.bytecode, thread.inst + 1)
       IN IF has_thread_at(fetched, inst) THEN Failed(fetched)
          ELSE Continue(with_inst(fetched, inst))

StepSplitPrioritizeParent ==
    /\ InStep /\ op = Split_PrioritizeParent
    /\ LET fetched == with_inst(m_threads, thread.inst + 1)
           added == add_thread(fetched, i + 1,
                               get_offset(program.bytecode, thread.inst + 1),
                               thread.saves)
       IN Continue(with_inst(added, thread.inst + 1 + OffsetSize))

\* Split_PrioritizeChild as it would be if the thread went on to the next
\* instruction and the inserted thread took the target: the exit of a
\* repeat would come before one more repetition.
StepSplitPrioritizeChildExitFirst ==
    /\ InStep /\ op = Split_PrioritizeChild
    /\ LET fetched == with_inst(m_threads, thread.inst + 1)
           added == add_thread(fetched, i + 1,
                               get_offset(program.bytecode, thread.inst + 1),
                               thread.saves)
       IN Continue(with_inst(added, thread.inst + 1 + OffsetSize))

StepSplitPrioritizeChild ==
    /\ InStep /\ op = Split_PrioritizeChild
    /\ LET fetched == with_inst(m_threads, thread.inst + 1)
           added == add_thread(fetched, i + 1, thread.inst + 1 + OffsetSize,
                               thread.saves)
       IN Continue(with_inst(added, get_offset(program.bytecode, thread.inst + 1)))

StepSave ==
    /\ InStep /\ op = Save
    /\ LET index == program.bytecode[thread.inst + 2] IN
       Continue([m_threads EXCEPT ![i + 1] =
                    [inst |-> thread.inst + 2,
                     saves |-> save_position(thread.saves, index, base(data, m_pos))]])

\* An assertion instruction: the thread fails or runs on.
Assertion(holds) ==
    IF holds THEN Continue(with_inst(m_threads, thread.inst + 1))
    ELSE Failed(with_inst(m_threads, thread.inst + 1))

StepLineStart == InStep /\ op = LineStart /\ Assertion(is_line_start)

StepLineEnd == InStep /\ op = LineEnd /\ Assertion(is_line_end)

StepWordBoundary == InStep /\ op = WordBoundary /\ Assertion(is_word_boundary)

StepNotWordBoundary == InStep /\ op = NotWordBoundary /\ Assertion(~is_word_boundary)

StepSubjectBegin == InStep /\ op = SubjectBegin /\ Assertion(m_pos = 0)

StepSubjectEnd == InStep /\ op = SubjectEnd /\ Assertion(m_pos = m_end)

StepMatch ==
    /\ InStep /\ op = Match
    /\ Matched(with_inst(m_threads, NULL))

\* The end of one round of the loop over the subject: the dead threads are
\* erased, exec returns false when none is left, and m_pos advances.
NextPosition ==
    /\ pc = "main" /\ i >= Len(m_threads)
    /\ m_threads' = erase_dead(m_threads)
    /\ IF erase_dead(m_threads) = <<>>
       THEN pc' = "done" /\ result' = FALSE /\ UNCHANGED <<m_pos, i>>
       ELSE /\ m_pos' = m_pos + 1
            /\ i' = 0
            /\ pc' = IF m_pos + 1 = m_end THEN "final" ELSE "main"
            /\ UNCHANGED result
    /\ UNCHANGED <<re, program, compile_error, data, match, longest, m_captures,
                   found_match>>

\* The end of the loop after the subject: return found_match.
Return ==
    /\ pc = "final" /\ i >= Len(m_threads)
    /\ pc' = "done"
    /\ result' = found_match
    /\ UNCHANGED <<re, program, compile_error, data, match, longest, m_threads,
                   m_pos, m_captures, found_match, i>>

Init ==
    /\ re \in Patterns
    /\ program = NoProgram
    /\ compile_error = ""
    /\ pc = "parse"
    /\ data = <<>>
    /\ match = TRUE
    /\ longest = FALSE
    /\ m_threads = <<>>
    /\ m_pos = 0
    /\ m_captures = <<>>
    /\ found_match = FALSE
    /\ i = 0
    /\ result = FALSE

Next ==
    \/ CompileOk
    \/ CompileError
    \/ Exec
    \/ StepLiteral
    \/ StepAnyChar
    \/ StepCharRange
    \/ StepNegativeCharRange
    \/ StepJump
    \/ StepSplitPrioritizeParent
    \/ StepSplitPrioritizeChild
    \/ StepSave
    \/ StepLineStart
    \/ StepLineEnd
    \/ StepWordBoundary
    \/ StepNotWordBoundary
    \/ StepSubjectBegin
    \/ StepSubjectEnd
    \/ StepMatch
    \/ NextPosition
    \/ Return

Spec == Init /\ [][Next]_vars

\* The steps of exec after its first lines: the instructions of step and
\* the ends of the two loops.
ExecStep ==
    \/ StepLiteral
    \/ StepAnyChar
    \/ StepCharRange
    \/ StepNegativeCharRange
    \/ StepJump
    \/ StepSplitPrioritizeParent
    \/ StepSplitPrioritizeChild
    \/ StepSave
    \/ StepLineStart
    \/ StepLineEnd
    \/ StepWordBoundary
    \/ StepNotWordBoundary
    \/ StepSubjectBegin
    \/ StepSubjectEnd
    \/ StepMatch
    \/ NextPosition
    \/ Return

\* exec runs on one processor from its call to its return: while it has a
\* step to take, it takes it.
FairSpec == Init /\ [][Next]_vars /\ WF_vars(ExecStep)

\* The longest subject text of an exec on a VM that has run exec before.
MaxReuseLen == 2

ReuseInputs == {d \in Inputs : Len(d) <= MaxReuseLen}

\* exec called again on the same VM, after an exec returned.
ExecAgain == pc = "done" /\ ExecCall(ReuseInputs)

ReuseNext == Next \/ ExecAgain

\* A VM on which exec is called any number of times.
ReuseSpec == Init /\ [][ReuseNext]_vars

\* ------------------------------------------------------------------------
\* Ordinary regular-expression semantics, on the syntax tree
\* ------------------------------------------------------------------------
\* The yardstick of the properties below: the matches of a node of the
\* syntax tree in the text s from the codepoint position p, as the sequence
\* of their outcomes [pos, caps] (the position after the match, the capture
\* offsets) in the order of a backtracking matcher: the earlier alternative
\* first, one more repetition before stopping.  Nothing below reads the
\* bytecode or the thread list.

\* Whether codepoint c is in the class: a range with max = 0 is the single
\* codepoint min.
RefInClass(ranges, c) ==
    \E k \in 1..Len(ranges) :
        IF ranges[k].max = 0 THEN c = ranges[k].min
        ELSE ranges[k].min <= c /\ c <= ranges[k].max

\* Whether the k-th codepoint of s is a word character; outside of the text
\* counts as non-word.
RefIsWord(s, k) == k >= 1 /\ k <= Len(s) /\ is_word(s[k])

RefWordBoundary(s, p) == RefIsWord(s, p) # RefIsWord(s, p + 1)

\* The least and the greatest number of copies a quantifier asks for (-1:
\* no greatest number).
RefMin(q) ==
    CASE q.type = "One" -> 1
      [] q.type = "Optional" -> 0
      [] q.type = "RepeatZeroOrMore" -> 0
      [] q.type = "RepeatOneOrMore" -> 1
      [] q.type = "RepeatMinMax" -> IF q.min < 0 THEN 0 ELSE q.min

RefMax(q) ==
    CASE q.type = "One" -> 1
      [] q.type = "Optional" -> 1
      [] q.type = "RepeatZeroOrMore" -> -1
      [] q.type = "RepeatOneOrMore" -> -1
      [] q.type = "RepeatMinMax" -> q.max

RefOutcome(pos, caps) == [pos |-> pos, caps |-> caps]

RECURSIVE RefBody(_, _, _, _, _)
RECURSIVE RefInner(_, _, _, _, _)
RECURSIVE RefSeqFrom(_, _, _, _, _)
RECURSIVE RefSeqList(_, _, _, _, _)
RECURSIVE RefRepFrom(_, _, _, _, _)
RECURSIVE RefRepList(_, _, _, _, _)

\* The matches of node with its quantifier.
RefNode(parsed, node, s, p, caps) == RefRepFrom(parsed, node, s, RefOutcome(p, caps), 0)

\* The matches of the children from the k-th on, after outcome o.
RefSeqFrom(parsed, children, k, s, o) ==
    IF k > Len(children) THEN <<o>>
    ELSE RefSeqList(parsed, children, k + 1, s,
                    RefNode(parsed, children[k], s, o.pos, o.caps))

RefSeqList(parsed, children, k, s, outs) ==
    IF outs = <<>> THEN <<>>
    ELSE RefSeqFrom(parsed, children, k, s, Head(outs))
            \o RefSeqList(parsed, children, k, s, Tail(outs))

\* One copy of node without its capture: what the node is made of.
RefInner(parsed, node, s, p, caps) ==
    LET one == IF p < Len(s) THEN <<RefOutcome(p + 1, caps)>> ELSE <<>>
        here(holds) == IF holds THEN <<RefOutcome(p, caps)>> ELSE <<>>
    IN
    CASE node.op = "Literal" -> IF p < Len(s) /\ s[p + 1] = node.value THEN one ELSE <<>>
      [] node.op = "AnyChar" -> one
      [] node.op = "CharRange" ->
            IF p < Len(s) /\ RefInClass(parsed.ranges[node.value + 1], s[p + 1])
            THEN one ELSE <<>>
      [] node.op = "NegativeCharRange" ->
            IF p < Len(s) /\ ~RefInClass(parsed.ranges[node.value + 1], s[p + 1])
            THEN one ELSE <<>>
      [] node.op = "Sequence" -> RefSeqFrom(parsed, node.children, 1, s, RefOutcome(p, caps))
      [] node.op = "Alternation" ->
            RefNode(parsed, node.children[1], s, p, caps)
               \o RefNode(parsed, node.children[2], s, p, caps)
      [] node.op = "LineStart" -> here(p = 0 \/ s[p] = Cp("\n"))
      [] node.op = "LineEnd" -> here(p = Len(s) \/ s[p + 1] = Cp("\n"))
      [] node.op = "WordBoundary" -> here(RefWordBoundary(s, p))
      [] node.op = "NotWordBoundary" -> here(~RefWordBoundary(s, p))
      [] node.op = "SubjectBegin" -> here(p = 0)
      [] node.op = "SubjectEnd" -> here(p = Len(s))

\* One copy of node: a group records where its copy starts and ends, each
\* copy overwriting what the copy before recorded.
RefBody(parsed, node, s, p, caps) ==
    IF node.op \in {"Sequence", "Alternation"} /\ node.value # NoValue
    THEN LET opened == [caps EXCEPT ![2 * node.value + 1] = base(s, p)]
             inner == RefInner(parsed, node, s, p, opened)
         IN [k \in 1..Len(inner) |->
                RefOutcome(inner[k].pos,
                           [inner[k].caps EXCEPT ![2 * node.value + 2] = base(s, inner[k].pos)])]
    ELSE RefInner(parsed, node, s, p, caps)

\* The matches of node's copies from the k-th (counted from 0) on, after
\* outcome o: one more copy first, then stopping here.  A copy beyond the
\* least number must consume something.
RefRepFrom(parsed, node, s, o, k) ==
    LET min == RefMin(node.quantifier)
        max == RefMax(node.quantifier)
        body == IF max # -1 /\ k >= max THEN <<>>
                ELSE RefBody(parsed, node, s, o.pos, o.caps)
        more == IF k >= min THEN SelectSeq(body, LAMBDA x : x.pos > o.pos) ELSE body
    IN RefRepList(parsed, node, s, more, k + 1) \o (IF k >= min THEN <<o>> ELSE <<>>)

RefRepList(parsed, node, s, outs, k) ==
    IF outs = <<>> THEN <<>>
    ELSE RefRepFrom(parsed, node, s, Head(outs), k)
            \o RefRepList(parsed, node, s, Tail(outs), k)

\* The capture offsets before anything is matched.
RefNoCaptures(parsed) == [k \in 1..(2 * parsed.capture_count) |-> NULL]

\* The matches of the pattern re in the text s that start at position from.
RefMatches(s, from) ==
    LET p == parse(re) IN
    RefNode(p.parsed, p.node, s, from, RefNoCaptures(p.parsed))

\* The positions at which a match of re in s starts.
RefStarts(s) == {from \in 0..Len(s) : RefMatches(s, from) # <<>>}

\* The leftmost of them.
RefLeftmost(s) == CHOOSE from \in RefStarts(s) : \A g \in RefStarts(s) : from <= g

\* The positions a sequence of outcomes ends at.
RefEnds(outs) == {outs[k].pos : k \in 1..Len(outs)}

\* ------------------------------------------------------------------------
\* Properties
\* ------------------------------------------------------------------------

\* exec returned.
Returned == pc = "done"

\* C1 (anchored correctness): exec with match = true returns true if and
\* only if the whole subject, from its first to its last codepoint, is
\* matched by the pattern.
C1_AnchoredCorrectness ==
    (Returned /\ match) => (result <=> Len(data) \in RefEnds(RefMatches(data, 0)))

\* The pattern .*(a|b)b, which matches the whole of "ab", anchored: exec
\* returned false.
C1_FailingInput ==
    /\ Returned /\ match /\ ~result
    /\ re = Str(<<".", "*", "(", "a", "|", "b", ")", "b">>)
    /\ data = Str(<<"a", "b">>)

\* C2 (search correctness): exec with match = false returns true if and
\* only if some substring of the subject, possibly empty, is matched by the
\* pattern.
C2_SearchCorrectness ==
    (Returned /\ ~match) => (result <=> RefStarts(data) # {})

\* The pattern .*(a|b)b searched in "ab", which it matches, with
\* longest = false: exec returned false.
C2_FailingInput ==
    /\ Returned /\ ~match /\ ~longest /\ ~result
    /\ re = Str(<<".", "*", "(", "a", "|", "b", ")", "b">>)
    /\ data = Str(<<"a", "b">>)

\* C3 (priority): in search mode with longest = false the span of group 0
\* that exec reports starts at the leftmost position a match starts at, and
\* is the first match from there of a matcher that prefers the earlier
\* alternative and one more repetition.
C3_Priority ==
    (Returned /\ ~match /\ ~longest /\ result) =>
        /\ RefStarts(data) # {}
        /\ m_captures[1] = base(data, RefLeftmost(data))
        /\ m_captures[2] = base(data, Head(RefMatches(data, RefLeftmost(data))).pos)

\* The pattern a* searched in "a" with longest = false: exec reported the
\* empty span at 0, not the greedy "a".
C3_FailingInput ==
    /\ Returned /\ ~match /\ ~longest /\ result
    /\ re = Str(<<"a", "*">>)
    /\ data = Str(<<"a">>)
    /\ m_captures = <<0, 0>>

\* C4 (longest mode): in search mode with longest = true, whenever the
\* pattern matches somewhere in the subject, exec returns true and reports
\* the captures of a longest match that starts at the leftmost position a
\* match starts at.
C4_LongestMode ==
    (Returned /\ ~match /\ longest /\ RefStarts(data) # {}) =>
        /\ result
        /\ LET outs == RefMatches(data, RefLeftmost(data)) IN
           \E k \in 1..Len(outs) :
              /\ outs[k].caps = m_captures
              /\ \A j \in 1..Len(outs) : outs[j].pos <= outs[k].pos

\* The pattern a searched in "ab" with longest = true: exec found the match
\* and returned false.
C4_FailingInput ==
    /\ Returned /\ ~match /\ longest /\ ~result /\ found_match
    /\ re = Str(<<"a">>)
    /\ data = Str(<<"a", "b">>)
    /\ m_captures = <<0, 1>>

\* The number of capture groups of the captures exec left.
GroupCount == Len(m_captures) \div 2

\* C5 (capture bracketing): whenever exec returns true, group 0 is set and
\* lies inside the subject, and every group whose two slots are set starts
\* no later than it ends and lies inside group 0.
C5_CaptureBracketing ==
    (Returned /\ result) =>
        /\ m_captures[1] # NULL /\ m_captures[2] # NULL
        /\ 0 <= m_captures[1]
        /\ m_captures[2] <= base(data, Len(data))
        /\ \A k \in 0..(GroupCount - 1) :
              (m_captures[2 * k + 1] # NULL /\ m_captures[2 * k + 2] # NULL) =>
                 /\ m_captures[2 * k + 1] <= m_captures[2 * k + 2]
                 /\ m_captures[1] <= m_captures[2 * k + 1]
                 /\ m_captures[2 * k + 2] <= m_captures[2]

\* exec returned true with a non-empty group 1 strictly inside group 0.
C5_Witness ==
    /\ Returned /\ result
    /\ GroupCount >= 2
    /\ m_captures[3] # NULL /\ m_captures[4] # NULL
    /\ m_captures[1] < m_captures[3]
    /\ m_captures[3] < m_captures[4]
    /\ m_captures[4] < m_captures[2]

\* C6 (termination): every exec on a compiled program returns.
C6_Termination == (pc \in {"main", "final"}) ~> Returned

\* The pattern (^)*, a starred group that holds only an assertion: exec has
\* not returned, and the thread that runs is on the Split_PrioritizeChild
\* that sends it back to the start of the group.
C6_FailingInput ==
    /\ re = Str(<<"(", "^", ")", "*">>)
    /\ InStep /\ op = Split_PrioritizeChild
    /\ thread.saves[3] # NULL /\ thread.saves[4] # NULL

\* Whether the pattern is one atom under a counted quantifier written with
\* a comma: x{n,m}, x{n,} or x{,m}.
IsCounted ==
    /\ \E k \in 1..Len(re) : re[k] = Cp(",")
    /\ parse(re).err = ""
    /\ parse(re).pos = Len(re) + 1
    /\ Len(parse(re).node.children) = 1
    /\ parse(re).node.children[1].quantifier.type = "RepeatMinMax"

\* The positions of s after exactly k consecutive matches of one copy of
\* node, from the positions ps.
RECURSIVE RefCopies(_, _, _, _, _)
RefCopies(parsed, node, s, ps, k) ==
    IF k = 0 THEN ps
    ELSE RefCopies(parsed, node, s,
                   UNION {RefEnds(RefBody(parsed, node, s, q, RefNoCaptures(parsed))) : q \in ps},
                   k - 1)

\* C7 (counted quantifier): an anchored match of x{n,m} accepts exactly the
\* subjects made of k consecutive matches of x with n <= k <= m; of x{n,},
\* with n <= k; of x{,m}, with 0 <= k <= m.
C7_CountedQuantifier ==
    (Returned /\ match /\ IsCounted) =>
        LET x == parse(re).node.children[1]
            n == IF x.quantifier.min < 0 THEN 0 ELSE x.quantifier.min
            m == IF x.quantifier.max = -1 THEN n + Len(data) ELSE x.quantifier.max
        IN result <=> \E k \in n..m :
                         Len(data) \in RefCopies(parse(re).parsed, x, data, {0}, k)

\* The pattern a{0,0}, anchored, on "a": exec returned true.
C7_FailingInput ==
    /\ Returned /\ match /\ result
    /\ re = Str(<<"a", "{", "0", ",", "0", "}">>)
    /\ data = Str(<<"a">>)

\* The matches of the pattern that have the span of the reported group 0.
RefReported ==
    LET RECURSIVE at(_)
        at(from) ==
            IF from > Len(data) THEN <<>>
            ELSE (IF base(data, from) = m_captures[1]
                  THEN SelectSeq(RefMatches(data, from),
                                 LAMBDA o : base(data, o.pos) = m_captures[2])
                  ELSE <<>>) \o at(from + 1)
    IN at(0)

\* C8 (last-iteration capture): when the reported span is a match of the
\* pattern, the reported offsets of the groups are those of one such match
\* in which every group bounds the text of its last copy.
C8_LastIterationCapture ==
    (Returned /\ result /\ RefReported # <<>>) =>
        \E k \in 1..Len(RefReported) : RefReported[k].caps = m_captures

\* The pattern (a|b)+ on "ab": the group was matched twice and the reported
\* offsets of group 1 bound the second copy, "b".
C8_Witness ==
    /\ Returned /\ result
    /\ re = Str(<<"(", "a", "|", "b", ")", "+">>)
    /\ data = Str(<<"a", "b">>)
    /\ m_captures = <<0, 2, 1, 2>>

\* C9 (word boundary): the WordBoundary instruction succeeds (the thread
\* runs on) exactly when the word-character predicate differs across the
\* position, the outside of the subject counting as non-word, and
\* NotWordBoundary succeeds exactly when WordBoundary fails.
C9_WordBoundary ==
    [][/\ (InStep /\ op = WordBoundary) => ((i' = i) <=> RefWordBoundary(data, m_pos))
       /\ (InStep /\ op = NotWordBoundary) => ((i' = i) <=> ~RefWordBoundary(data, m_pos))]_vars

\* The pattern \ba on the empty subject: the thread has run past the
\* WordBoundary instruction and is on the Literal.
C9_FailingInput ==
    /\ re = Str(<<"\\", "b", "a">>)
    /\ data = <<>>
    /\ InStep /\ op = Literal

\* C10 (fail-fast compilation): compile returns a program only when the
\* grammar consumed the whole pattern.
C10_FailFast ==
    (pc \notin {"parse", "error"}) => parse(re).pos = Len(re) + 1

\* The pattern (a|b)+), with its unmatched closing parenthesis, was compiled
\* to a program.
C10_FailingInput ==
    /\ pc = "ready"
    /\ re = Str(<<"(", "a", "|", "b", ")", "+", ")">>)
    /\ program # NoProgram

\* ------------------------------------------------------------------------
\* Execution safety
\* ------------------------------------------------------------------------

\* The offset of the instruction after the one at offset inst, following the
\* operands step reads for each opcode.
inst_end(bytes, inst) ==
    LET o == bytes[inst + 1] IN
    IF o = Literal THEN utf8_read_codepoint(bytes, inst + 1).next
    ELSE IF o \in {CharRange, NegativeCharRange}
         THEN utf8_advance(bytes, inst + 3, bytes[inst + 2] + bytes[inst + 3] * 2)
    ELSE IF o \in {Jump, Split_PrioritizeParent, Split_PrioritizeChild}
         THEN inst + 1 + OffsetSize
    ELSE IF o = Save THEN inst + 2
    ELSE inst + 1

\* The offsets at which the instructions of a program start.
RECURSIVE inst_starts_from(_, _)
inst_starts_from(bytes, inst) ==
    IF inst >= Len(bytes) THEN {}
    ELSE {inst} \cup inst_starts_from(bytes, inst_end(bytes, inst))

InstStarts == inst_starts_from(program.bytecode, 0)

SaveIndexes(bytes) ==
    {bytes[k + 2] : k \in {s \in inst_starts_from(bytes, 0) : bytes[s + 1] = Save}}

\* The capture indexes of the parenthesised groups of the pattern whose body
\* is one unquantified atom that consumes one codepoint.
RECURSIVE SingleAtomGroups(_)
SingleAtomGroups(node) ==
    (IF /\ node.op = "Sequence"
        /\ node.value # NoValue /\ node.value > 0
        /\ Len(node.children) = 1
        /\ node.children[1].op \in {"Literal", "AnyChar", "CharRange", "NegativeCharRange"}
        /\ node.children[1].quantifier = QuantifierOne
     THEN {node.value} ELSE {})
    \cup UNION {SingleAtomGroups(node.children[k]) : k \in 1..Len(node.children)}

\* C12 as the code has it (single-atom group): a parenthesised group whose
\* body is a single atom keeps its capture index.  The program holds the
\* Save pair of the group, and after a match the two slots of the group are
\* unset together or bound one codepoint of the subject.
C12_SingleAtomGroupCaptured ==
    (pc \notin {"parse", "error"}) =>
        \A g \in SingleAtomGroups(parse(re).node) :
            /\ 2 * g \in SaveIndexes(program.bytecode)
            /\ 2 * g + 1 \in SaveIndexes(program.bytecode)
            /\ (Returned /\ result) =>
                  \/ m_captures[2 * g + 1] = NULL /\ m_captures[2 * g + 2] = NULL
                  \/ /\ m_captures[2 * g + 1] # NULL /\ m_captures[2 * g + 2] # NULL
                     /\ \E q \in 0..(Len(data) - 1) :
                           /\ m_captures[2 * g + 1] = base(data, q)
                           /\ m_captures[2 * g + 2] = base(data, q + 1)

\* C12 as stated (single-atom group): the program holds no Save pair for a
\* group whose body is a single atom, and its two slots stay unset after a
\* match.
C12_SingleAtomGroupLost ==
    (pc \notin {"parse", "error"}) =>
        \A g \in SingleAtomGroups(parse(re).node) :
            /\ 2 * g \notin SaveIndexes(program.bytecode)
            /\ 2 * g + 1 \notin SaveIndexes(program.bytecode)
            /\ (Returned /\ result) =>
                  (m_captures[2 * g + 1] = NULL /\ m_captures[2 * g + 2] = NULL)

\* exec returned true on a pattern with a single-atom group and reports the
\* codepoint the group matched.
C12_Witness ==
    /\ Returned /\ result
    /\ \E g \in SingleAtomGroups(parse(re).node) :
          m_captures[2 * g + 1] # NULL /\ m_captures[2 * g + 2] # NULL

\* ------------------------------------------------------------------------
\* Exact-count quantifier
\* ------------------------------------------------------------------------

\* The pattern is one atom under braces that hold a count of at least one
\* and no comma.
IsExactCount ==
    /\ \E k \in 1..Len(re) : re[k] = Cp("{")
    /\ \A k \in 1..Len(re) : re[k] # Cp(",")
    /\ parse(re).err = ""
    /\ parse(re).pos = Len(re) + 1
    /\ Len(parse(re).node.children) = 1
    /\ parse(re).node.children[1].quantifier.type = "RepeatMinMax"
    /\ parse(re).node.children[1].quantifier.min >= 1

\* C13 (exact-count quantifier): an anchored match of x{n} accepts exactly
\* the subjects made of n consecutive matches of x.
C13_ExactCount ==
    (Returned /\ match /\ IsExactCount) =>
        LET x == parse(re).node.children[1] IN
        result <=> Len(data) \in RefCopies(parse(re).parsed, x, data, {0}, x.quantifier.min)

\* The pattern a{2}, anchored, on "aaa": exec returned true.
C13_FailingInput ==
    /\ Returned /\ match /\ result
    /\ re = Str(<<"a", "{", "2", "}">>)
    /\ data = Str(<<"a", "a", "a">>)

\* ------------------------------------------------------------------------
\* Longest mode against first-match mode
\* ------------------------------------------------------------------------

\* C14 (longest agrees with first match): a search with longest = true
\* returns true exactly when the search with longest = false does.  The two
\* executions take the same steps up to the first thread that reaches Match,
\* where the one with longest = false returns true and the one with
\* longest = true sets found_match; so the search with longest = true must
\* return true exactly when it has recorded a match.
C14_LongestAgreesWithFirst ==
    (Returned /\ ~match /\ longest) => (result <=> found_match)

\* The pattern a* searched in "ab" with longest = true: the match "a" was
\* recorded after the empty one, the thread list was left empty, and exec
\* returned false.
C14_FailingInput ==
    /\ Returned /\ ~match /\ longest
    /\ found_match /\ ~result
    /\ re = Str(<<"a", "*">>)
    /\ data = Str(<<"a", "b">>)
    /\ m_captures = <<0, 1>>

\* ------------------------------------------------------------------------
\* Soundness of the reported match
\* ------------------------------------------------------------------------

\* C15 (soundness): whenever exec returns true, the span of group 0 is a
\* substring of the subject that the pattern matches at that position, and
\* with match = true it is the whole subject.
C15_Soundness ==
    (Returned /\ result) =>
        /\ RefReported # <<>>
        /\ match => /\ m_captures[1] = 0
                    /\ m_captures[2] = base(data, Len(data))

\* The pattern a{0,0} searched in "a" with longest = true: exec reported the
\* span "a", which the pattern does not match.
C15_FailingInput ==
    /\ Returned /\ ~match /\ longest /\ result
    /\ re = Str(<<"a", "{", "0", ",", "0", "}">>)
    /\ data = Str(<<"a">>)
    /\ m_captures = <<0, 1>>

\* ------------------------------------------------------------------------
\* The thread list
\* ------------------------------------------------------------------------

\* The k-th thread of the list is live: it is not dead, and exec may still
\* step it.  The loop after the subject steps every thread once and leaves
\* the ones it has stepped in the list.
Live(k) ==
    /\ k \in 1..Len(m_threads)
    /\ m_threads[k].inst # NULL
    /\ ~(pc = "final" /\ k <= i)

\* C16 (duplicate collapse): during an execution no two live threads of the
\* thread list have the same instruction pointer.
C16_NoDuplicateThreads ==
    (pc \in {"main", "final"}) =>
        \A j \in 1..Len(m_threads), k \in 1..Len(m_threads) :
            (j < k /\ Live(j) /\ Live(k)) => m_threads[j].inst # m_threads[k].inst

\* The pattern a{1,2} on "aa", anchored, at the second codepoint: the thread
\* that consumed the optional a has fallen through to the instruction where
\* the thread its split inserted still waits.
C16_FailingInput ==
    /\ pc = "main" /\ m_pos = 1 /\ i = 1
    /\ re = Str(<<"a", "{", "1", ",", "2", "}">>)
    /\ data = Str(<<"a", "a">>)
    /\ match
    /\ Len(m_threads) = 2
    /\ m_threads[1].inst = m_threads[2].inst
    /\ m_threads[1].inst # NULL

\* The number of live threads of the thread list.
LiveCount == Cardinality({k \in 1..Len(m_threads) : Live(k)})

\* C17 (bounded frontier): during an execution the number of live threads
\* is at most the number of distinct instruction addresses of the program.
C17_BoundedFrontier ==
    (pc \in {"main", "final"}) => LiveCount <= Cardinality(InstStarts)

\* The pattern (a+)+ on "aaaaa", anchored: the thread list holds more live
\* threads than the program has instructions, all but one of them on the
\* same instruction.
C17_FailingInput ==
    /\ pc \in {"main", "final"}
    /\ re = Str(<<"(", "a", "+", ")", "+">>)
    /\ data = Str(<<"a", "a", "a", "a", "a">>)
    /\ match
    /\ LiveCount > Cardinality(InstStarts)

\* ------------------------------------------------------------------------
\* The double-buffered VM
\* ------------------------------------------------------------------------
\* exec and step with a current and a next list: every thread carries the
\* position (at) at which it is to be stepped, the threads of the next list
\* are those whose position is one past the current, and the duplicate
\* checks of Jump and add_thread look only at the threads of the current
\* position.  The lists are kept interleaved in one sequence, which keeps
\* the priority order of the single list.  All the rest is exec and step.

\* The codepoint at position p of the text s, 0 at its end.
db_cp(s, p) == IF p = Len(s) THEN 0 ELSE s[p + 1]

\* The assertion instructions of step at position p of the text s.
db_assertion(o, s, p) ==
    CASE o = LineStart -> p = 0 \/ s[p] = Cp("\n")
      [] o = LineEnd -> p = Len(s) \/ s[p + 1] = Cp("\n")
      [] o = WordBoundary -> p = 0 \/ p = Len(s) \/ is_word(s[p]) # is_word(s[p + 1])
      [] o = NotWordBoundary -> ~(p = 0 \/ p = Len(s) \/ is_word(s[p]) # is_word(s[p + 1]))
      [] o = SubjectBegin -> p = 0
      [] o = SubjectEnd -> p = Len(s)

\* A thread of the current list points to inst.
db_has_thread_at(threads, inst, p) ==
    \E k \in 1..Len(threads) : threads[k].inst = inst /\ threads[k].at = p

db_add_thread(threads, index, inst, saves, p) ==
    IF db_has_thread_at(threads, inst, p) THEN threads
    ELSE insert_thread(threads, index, [inst |-> inst, saves |-> saves, at |-> p])

db_result(threads, res) == [threads |-> threads, res |-> res]

\* step(i) at position p: the thread list left and the StepResult.
RECURSIVE db_step(_, _, _, _, _)
db_step(bytes, s, p, threads, n) ==
    LET t == threads[n + 1]
        o == bytes[t.inst + 1]
        fetched == [threads EXCEPT ![n + 1].inst = t.inst + 1]
    IN
    CASE o = Literal ->
            LET r == utf8_read_codepoint(bytes, t.inst + 1) IN
            db_result([threads EXCEPT ![n + 1].inst = r.next],
                      IF r.cp = db_cp(s, p) THEN "Consumed" ELSE "Failed")
      [] o = AnyChar -> db_result(fetched, "Consumed")
      [] o \in {CharRange, NegativeCharRange} ->
            LET c == scan_class(bytes, t.inst + 1, db_cp(s, p)) IN
            db_result([threads EXCEPT ![n + 1].inst = c.inst],
                      IF c.hit = (o = CharRange) THEN "Consumed" ELSE "Failed")
      [] o = Jump ->
            LET inst == get_offset(bytes, t.inst + 1) IN
            IF db_has_thread_at(fetched, inst, p) THEN db_result(fetched, "Failed")
            ELSE db_step(bytes, s, p, [threads EXCEPT ![n + 1].inst = inst], n)
      [] o = Split_PrioritizeParent ->
            LET added == db_add_thread(fetched, n + 1, get_offset(bytes, t.inst + 1),
                                       t.saves, p)
            IN db_step(bytes, s, p,
                       [added EXCEPT ![n + 1].inst = t.inst + 1 + OffsetSize], n)
      [] o = Split_PrioritizeChild ->
            LET added == db_add_thread(fetched, n + 1, t.inst + 1 + OffsetSize,
                                       t.saves, p)
            IN db_step(bytes, s, p,
                       [added EXCEPT ![n + 1].inst = get_offset(bytes, t.inst + 1)], n)
      [] o = Save ->
            db_step(bytes, s, p,
                    [threads EXCEPT ![n + 1].inst = t.inst + 2,
                                    ![n + 1].saves =
                                        save_position(t.saves, bytes[t.inst + 2], base(s, p))],
                    n)
      [] o = Match -> db_result([threads EXCEPT ![n + 1].inst = NULL], "Matched")
      [] OTHER ->
            IF db_assertion(o, s, p) THEN db_step(bytes, s, p, fetched, n)
            ELSE db_result(fetched, "Failed")

db_round_result(threads, captures, found, returned) ==
    [threads |-> threads, captures |-> captures, found |-> found, returned |-> returned]

\* One for loop of exec over the thread list, from index n on; final is
\* true for the loop after the subject.  A thread that consumed goes to the
\* next list, a thread that failed is dropped.
RECURSIVE db_round(_, _, _, _, _, _, _, _, _, _)
db_round(bytes, s, p, threads, n, captures, found, m, l, final) ==
    IF n >= Len(threads) THEN db_round_result(threads, captures, found, FALSE)
    ELSE LET r == db_step(bytes, s, p, threads, n) IN
         IF r.res = "Matched"
         THEN IF ~final /\ m
              THEN db_round(bytes, s, p, r.threads, n + 1, captures, found, m, l, final)
              ELSE IF ~l
              THEN db_round_result(SubSeq(r.threads, 1, n), r.threads[n + 1].saves,
                                   TRUE, TRUE)
              ELSE db_round(bytes, s, p, SubSeq(r.threads, 1, n), n + 1,
                            r.threads[n + 1].saves, TRUE, m, l, final)
         ELSE IF r.res = "Failed"
         THEN db_round(bytes, s, p, [r.threads EXCEPT ![n + 1].inst = NULL], n + 1,
                       captures, found, m, l, final)
         ELSE db_round(bytes, s, p, [r.threads EXCEPT ![n + 1].at = p + 1], n + 1,
                       captures, found, m, l, final)

db_exec_result(res, captures) == [result |-> res, captures |-> captures]

\* exec from position p on: the loop over the subject and the loop after it.
RECURSIVE db_exec_from(_, _, _, _, _, _, _, _)
db_exec_from(bytes, s, p, threads, captures, found, m, l) ==
    LET r == db_round(bytes, s, p, threads, 0, captures, found, m, l, p = Len(s)) IN
    IF r.returned THEN db_exec_result(TRUE, r.captures)
    ELSE IF p = Len(s) THEN db_exec_result(r.found, r.captures)
    ELSE IF erase_dead(r.threads) = <<>> THEN db_exec_result(FALSE, r.captures)
    ELSE db_exec_from(bytes, s, p + 1, erase_dead(r.threads), r.captures, r.found, m, l)

\* exec(data, match, longest) of the double-buffered VM on a program.
db_exec(prog, s, m, l) ==
    db_exec_from(prog.bytecode, s, 0,
                 <<[inst |-> IF m THEN prefix_size ELSE 0,
                    saves |-> [k \in 1..prog.save_count |-> NULL],
                    at |-> 0]>>,
                 <<>>, FALSE, m, l)

\* C18 (single-list equivalence): exec returns the same boolean, and with
\* true the same captures, as the double-buffered VM on the same program,
\* subject and mode.
C18_SingleListEquivalence ==
    Returned =>
        /\ result = db_exec(program, data, match, longest).result
        /\ result => m_captures = db_exec(program, data, match, longest).captures

\* The pattern .*(a|b)b on "ab", anchored: exec returned false, and the
\* double-buffered VM returns true with group 1 on "a".
C18_FailingInput ==
    /\ Returned /\ match /\ ~longest /\ ~result
    /\ re = Str(<<".", "*", "(", "a", "|", "b", ")", "b">>)
    /\ data = Str(<<"a", "b">>)
    /\ db_exec(program, data, match, longest) = db_exec_result(TRUE, <<0, 2, 0, 1>>)

\* ------------------------------------------------------------------------
\* Alternation
\* ------------------------------------------------------------------------

\* C19 (first alternative wins): when the thread that went through the
\* first alternative runs the Jump to the instruction after the alternation
\* and a thread already points there, that thread is of higher priority;
\* the Jump never drops its thread for a thread of lower priority, which
\* reached the instruction through a later alternative.
C19_FirstAlternativeWins ==
    (InStep /\ op = Jump) =>
        \A k \in 1..Len(m_threads) :
            m_threads[k].inst = get_offset(program.bytecode, thread.inst + 1)
                => k < i + 1

\* The pattern (a)|. on "a", anchored: the thread of the first alternative
\* was dropped at its Jump, and exec reported the captures of the second,
\* with group 1 unset.
C19_FailingInput ==
    /\ Returned /\ match /\ result
    /\ re = Str(<<"(", "a", ")", "|", ".">>)
    /\ data = Str(<<"a">>)
    /\ m_captures = <<0, 1, NULL, NULL>>

\* ------------------------------------------------------------------------
\* The first thread
\* ------------------------------------------------------------------------

\* C20 as the code has it (start offset by mode): exec seeds a single
\* thread with all save slots unset, at offset prefix_size, the first
\* instruction past the search prefix, when match = true (anchored), and at
\* offset 0, the first instruction of the search prefix, when match = false
\* (search).
C20_StartOffset ==
    [][(pc = "ready" /\ pc' # "ready") =>
          /\ m_threads' = <<[inst |-> IF match' THEN Len(write_search_prefix) ELSE 0,
                             saves |-> [k \in 1..program.save_count |-> NULL]]>>
          /\ SubSeq(program.bytecode, 1, Len(write_search_prefix)) = write_search_prefix]_vars

\* C20 as stated (start offset by mode): the single thread is seeded at
\* offset 0 when anchored and at offset prefix_size in a search.
C20_StartOffsetAsStated ==
    [][(pc = "ready" /\ pc' # "ready") =>
          m_threads' = <<[inst |-> IF match' THEN 0 ELSE prefix_size,
                          saves |-> [k \in 1..program.save_count |-> NULL]]>>]_vars

\* exec has seeded its thread for an anchored execution on a program with
\* a group: the only thread is at offset prefix_size, no slot set.
C20_Witness ==
    /\ pc = "main" /\ m_pos = 0 /\ i = 0
    /\ match
    /\ program.save_count = 4
    /\ m_threads = <<[inst |-> prefix_size, saves |-> <<NULL, NULL, NULL, NULL>>]>>

\* ------------------------------------------------------------------------
\* Repeat priority
\* ------------------------------------------------------------------------

\* The thread step runs is on the Split_PrioritizeChild emitted after a
\* repeated block: its target lies before it.
AtRepeatSplit ==
    /\ InStep /\ op = Split_PrioritizeChild
    /\ get_offset(program.bytecode, thread.inst + 1) < thread.inst

\* The target of that split, the start of the repeated block, and the
\* instruction after the split, the exit of the repeat.
RepeatAgain == get_offset(program.bytecode, thread.inst + 1)

RepeatExit == thread.inst + 1 + OffsetSize

\* C21 as the code has it (repeat priority): the thread that executes the
\* Split_PrioritizeChild after a repeated block keeps its index and repeats
\* the block, and the thread that exits the repeat, when one is inserted, is
\* inserted just after it: one more repetition has the higher priority.
C21_RepeatFirst ==
    [][AtRepeatSplit =>
          /\ i' = i
          /\ m_threads'[i + 1].inst = RepeatAgain
          /\ \/ /\ has_thread_at(with_inst(m_threads, thread.inst + 1), RepeatExit)
                /\ Len(m_threads') = Len(m_threads)
             \/ /\ Len(m_threads') = Len(m_threads) + 1
                /\ m_threads'[i + 2] = [inst |-> RepeatExit, saves |-> thread.saves]]_vars

\* C21 as stated (repeat priority): after the split the thread that repeats
\* the block is at a later index than the thread that exits the repeat.
C21_ExitFirst ==
    [][AtRepeatSplit =>
          \A j \in {i + 1, i + 2}, k \in {i + 1, i + 2} :
              (/\ j <= Len(m_threads') /\ k <= Len(m_threads')
               /\ m_threads'[j].inst = RepeatExit
               /\ m_threads'[k].inst = RepeatAgain) => j < k]_vars

\* A thread is on the first instruction of a repeated block at a position
\* past the first, and the next thread of the list is on the exit of the
\* Split_PrioritizeChild that loops back to that instruction.
C21_Witness ==
    /\ InStep /\ m_pos > 0
    /\ i + 2 <= Len(m_threads)
    /\ m_threads[i + 2].inst - 1 - OffsetSize \in InstStarts
    /\ program.bytecode[m_threads[i + 2].inst - OffsetSize] = Split_PrioritizeChild
    /\ get_offset(program.bytecode, m_threads[i + 2].inst - OffsetSize) = thread.inst
    /\ thread.inst < m_threads[i + 2].inst
    /\ thread.saves = m_threads[i + 2].saves

\* ------------------------------------------------------------------------
\* Order preservation
\* ------------------------------------------------------------------------

\* The thread step runs is on a split.
AtSplit == InStep /\ op \in {Split_PrioritizeParent, Split_PrioritizeChild}

\* The index in the list threads of its n-th thread that is not dead.
SurvivorIndex(threads, n) ==
    CHOOSE k \in 1..Len(threads) :
        /\ threads[k].inst # NULL
        /\ Cardinality({j \in 1..k : threads[j].inst # NULL}) = n

\* C22 (order preservation): a split leaves every other thread as it was
\* and in the same order, and the thread it inserts, if any, is right after
\* the splitting thread with that thread's saves; the compaction at the end
\* of a position leaves exactly the threads that are not dead, in their
\* order and unchanged.
C22_OrderPreservation ==
    [][/\ AtSplit =>
             /\ i' = i
             /\ m_threads'[i + 1].saves = thread.saves
             /\ \A k \in 1..i : m_threads'[k] = m_threads[k]
             /\ \/ /\ Len(m_threads') = Len(m_threads)
                   /\ \A k \in (i + 2)..Len(m_threads) : m_threads'[k] = m_threads[k]
                \/ /\ Len(m_threads') = Len(m_threads) + 1
                   /\ m_threads'[i + 2].saves = thread.saves
                   /\ m_threads'[i + 2].inst # m_threads'[i + 1].inst
                   /\ \A k \in (i + 2)..Len(m_threads) : m_threads'[k + 1] = m_threads[k]
       /\ (pc = "main" /\ i >= Len(m_threads)) =>
             /\ Len(m_threads') =
                   Cardinality({k \in 1..Len(m_threads) : m_threads[k].inst # NULL})
             /\ \A n \in 1..Len(m_threads') :
                   m_threads'[n] = m_threads[SurvivorIndex(m_threads, n)]]_vars

\* The end of a position past the first, with a dead thread between two
\* threads that survive, the later of them inserted by a split.
C22_Witness ==
    /\ pc = "main" /\ i >= Len(m_threads) /\ m_pos > 0
    /\ \E a \in 1..Len(m_threads), b \in 1..Len(m_threads), c \in 1..Len(m_threads) :
          /\ a < b /\ b < c
          /\ m_threads[a].inst # NULL
          /\ m_threads[b].inst = NULL
          /\ m_threads[c].inst # NULL
          /\ m_threads[a].saves # m_threads[c].saves

\* ------------------------------------------------------------------------
\* Jump targets
\* ------------------------------------------------------------------------

\* The opcodes that carry an Offset.
OffsetOps == {Jump, Split_PrioritizeParent, Split_PrioritizeChild}

\* C23 (valid jump targets): in a program compile returned, the Offset of
\* every Jump, Split_PrioritizeParent and Split_PrioritizeChild is the
\* address of the first byte of an instruction of the program, and the
\* program ends with Match.
C23_ValidJumpTargets ==
    (pc \notin {"parse", "error"}) =>
        /\ \A s \in InstStarts :
              program.bytecode[s + 1] \in OffsetOps =>
                  /\ get_offset(program.bytecode, s + 1) \in InstStarts
                  /\ get_offset(program.bytecode, s + 1) < Len(program.bytecode)
        /\ Len(program.bytecode) - 1 \in InstStarts
        /\ program.bytecode[Len(program.bytecode)] = Match

\* compile returned a program that holds, after the search prefix, the
\* Split_PrioritizeParent and the Jump of an alternation and the
\* Split_PrioritizeChild of an unbounded repeat.
C23_Witness ==
    /\ pc = "ready"
    /\ \A o \in OffsetOps :
          \E s \in InstStarts : s >= prefix_size /\ program.bytecode[s + 1] = o

\* ------------------------------------------------------------------------
\* Execution independence
\* ------------------------------------------------------------------------
\* What exec returns on a VM just constructed, computed from the program,
\* the subject and the two flags alone: exec and step as functions.

\* step(n) at position p of the text s: the thread list left and the
\* StepResult.
RECURSIVE fresh_step(_, _, _, _, _)
fresh_step(bytes, s, p, threads, n) ==
    LET t == threads[n + 1]
        o == bytes[t.inst + 1]
        fetched == [threads EXCEPT ![n + 1].inst = t.inst + 1]
    IN
    CASE o = Literal ->
            LET r == utf8_read_codepoint(bytes, t.inst + 1) IN
            db_result([threads EXCEPT ![n + 1].inst = r.next],
                      IF r.cp = db_cp(s, p) THEN "Consumed" ELSE "Failed")
      [] o = AnyChar -> db_result(fetched, "Consumed")
      [] o \in {CharRange, NegativeCharRange} ->
            LET c == scan_class(bytes, t.inst + 1, db_cp(s, p)) IN
            db_result([threads EXCEPT ![n + 1].inst = c.inst],
                      IF c.hit = (o = CharRange) THEN "Consumed" ELSE "Failed")
      [] o = Jump ->
            LET inst == get_offset(bytes, t.inst + 1) IN
            IF has_thread_at(fetched, inst) THEN db_result(fetched, "Failed")
            ELSE fresh_step(bytes, s, p, [threads EXCEPT ![n + 1].inst = inst], n)
      [] o = Split_PrioritizeParent ->
            LET added == add_thread(fetched, n + 1, get_offset(bytes, t.inst + 1), t.saves)
            IN fresh_step(bytes, s, p,
                          [added EXCEPT ![n + 1].inst = t.inst + 1 + OffsetSize], n)
      [] o = Split_PrioritizeChild ->
            LET added == add_thread(fetched, n + 1, t.inst + 1 + OffsetSize, t.saves)
            IN fresh_step(bytes, s, p,
                          [added EXCEPT ![n + 1].inst = get_offset(bytes, t.inst + 1)], n)
      [] o = Save ->
            fresh_step(bytes, s, p,
                       [threads EXCEPT ![n + 1].inst = t.inst + 2,
                                       ![n + 1].saves =
                                           save_position(t.saves, bytes[t.inst + 2], base(s, p))],
                       n)
      [] o = Match -> db_result([threads EXCEPT ![n + 1].inst = NULL], "Matched")
      [] OTHER ->
            IF db_assertion(o, s, p) THEN fresh_step(bytes, s, p, fetched, n)
            ELSE db_result(fetched, "Failed")

\* One for loop of exec over the thread list, from index n on; final is
\* true for the loop after the subject.
RECURSIVE fresh_round(_, _, _, _, _, _, _, _, _, _)
fresh_round(bytes, s, p, threads, n, captures, found, m, l, final) ==
    IF n >= Len(threads) THEN db_round_result(threads, captures, found, FALSE)
    ELSE LET r == fresh_step(bytes, s, p, threads, n) IN
         IF r.res = "Matched"
         THEN IF ~final /\ m
              THEN fresh_round(bytes, s, p, r.threads, n + 1, captures, found, m, l, final)
              ELSE IF ~l
              THEN db_round_result(SubSeq(r.threads, 1, n), r.threads[n + 1].saves,
                                   TRUE, TRUE)
              ELSE fresh_round(bytes, s, p, SubSeq(r.threads, 1, n), n + 1,
                               r.threads[n + 1].saves, TRUE, m, l, final)
         ELSE IF r.res = "Failed" /\ ~final
         THEN fresh_round(bytes, s, p, [r.threads EXCEPT ![n + 1].inst = NULL], n + 1,
                          captures, found, m, l, final)
         ELSE fresh_round(bytes, s, p, r.threads, n + 1, captures, found, m, l, final)

\* exec from position p on.
RECURSIVE fresh_exec_from(_, _, _, _, _, _, _, _)
fresh_exec_from(bytes, s, p, threads, captures, found, m, l) ==
    LET r == fresh_round(bytes, s, p, threads, 0, captures, found, m, l, p = Len(s)) IN
    IF r.returned THEN db_exec_result(TRUE, r.captures)
    ELSE IF p = Len(s) THEN db_exec_result(r.found, r.captures)
    ELSE IF erase_dead(r.threads) = <<>> THEN db_exec_result(FALSE, r.captures)
    ELSE fresh_exec_from(bytes, s, p + 1, erase_dead(r.threads), r.captures, r.found, m, l)

\* exec(data, match, longest) on a VM just constructed on the program.
fresh_exec(prog, s, m, l) ==
    fresh_exec_from(prog.bytecode, s, 0,
                    <<[inst |-> exec_start(m),
                       saves |-> [k \in 1..prog.save_count |-> NULL]]>>,
                    <<>>, FALSE, m, l)

\* C24 (execution independence): whatever execs ran on the VM before, exec
\* returns the boolean, and with true the captures, that a VM just
\* constructed on the same program returns for the same subject and flags.
C24_ExecutionIndependence ==
    Returned =>
        /\ result = fresh_exec(program, data, match, longest).result
        /\ result => m_captures = fresh_exec(program, data, match, longest).captures

\* exec returned false without having recorded a match, on a VM whose
\* m_captures still holds the captures of an earlier exec that matched.
C24_Witness ==
    /\ Returned /\ ~result /\ ~found_match
    /\ m_captures # <<>>
    /\ Len(data) > 0

====
